---------------------------- MODULE Spec2Model ----------------------------
(***************************************************************************)
(* Verification model of the card-duel backend.                            *)
(*                                                                         *)
(*  Part I  (SpecMM): the matchmaking coordinator of                       *)
(*           src/src/matchmaking/routes.py.  The Redis sorted set          *)
(*           (queue) and the Redis hash (status) are the shared state;     *)
(*           every HTTP request is a process that executes the Redis       *)
(*           commands of its handler one at a time, so that other          *)
(*           requests interleave exactly where the code lets them.         *)
(*           SpecMM3 and SpecMM3Live are the same handlers of POST         *)
(*           /enqueue in a deployment with a third user.                   *)
(*  Part II (SpecGE): the game engine of src/src/game_engine/services.py   *)
(*           and game_engine.py over one Match row and its Round rows.     *)
(***************************************************************************)
EXTENDS Integers, Sequences, FiniteSets, Bags, TLC

(***************************************************************************)
(* Bounds of the model.                                                    *)
(***************************************************************************)
NumUsers == 2          \* authenticated users 1..NumUsers
NumProcs == 2          \* concurrently served matchmaking requests
MaxTokens == 2         \* uuid4 values that may be drawn
MaxClock == 5          \* readings of time.time()
MaxMatches == 1        \* matches the engine creates for the coordinator
MaxQueueSize == 2      \* largest MATCHMAKING_MAX_QUEUE_SIZE a deployment sets
NumQueuers == 3        \* users of the deployment that only serves enqueues

Users == 1..NumUsers
Procs == 1..NumProcs
Queuers == 1..NumQueuers

VARIABLES
    queue,       \* Redis sorted set MATCHMAKING_QUEUE_KEY: entries member/score
    status,      \* Redis hash MATCHMAKING_STATUS_KEY: user -> payload
    clock,       \* last reading of time.time()
    nextToken,   \* next unused uuid4 value
    nextMatch,   \* next match id the engine hands out
    proc,        \* per request: program counter and local variables
    out,         \* the HTTP response the last step sent, if it sent one
    max_size,    \* MATCHMAKING_MAX_QUEUE_SIZE of the deployment (0: no cap)
    match,       \* the Match row of the game engine
    rounds,      \* the Round rows of the match
    deckReq,     \* bag of the submit_deck requests waiting for the catalogue
    reply        \* what the last step answered, if it was a read of the engine

\* The uuid4 values that may be drawn: MaxTokens for NumUsers users, and one
\* more for every further user the deployment has.
TokenLimit == MaxTokens + Cardinality(DOMAIN status) - NumUsers

mmVars == <<queue, status, clock, nextToken, nextMatch, proc, out>>
geVars == <<match, rounds, deckReq, reply>>
vars == <<queue, status, clock, nextToken, nextMatch, proc, out, max_size,
          match, rounds, deckReq, reply>>

(***************************************************************************)
(* Part I.  Values of the token store.                                     *)
(***************************************************************************)
WAITING == "waiting"
MATCHED == "matched"

\* A score is a reading t of time.time() plus e increments of 1e-6.
NoScore == [t |-> 0, e |-> 0]

ScoreLess(a, b) == a.t < b.t \/ (a.t = b.t /\ a.e < b.e)

\* hget of a field that does not exist (Python None).
NoStatus == [status |-> "none", token |-> 0, match_id |-> 0,
             opponent_id |-> 0, queued_at |-> NoScore]

_waiting_payload(token, queued_at) ==
    [status |-> WAITING, token |-> token, match_id |-> 0,
     opponent_id |-> 0, queued_at |-> queued_at]

_matched_payload(token, match_id, opponent_id, queued_at) ==
    [status |-> MATCHED, token |-> token, match_id |-> match_id,
     opponent_id |-> opponent_id, queued_at |-> queued_at]

(***************************************************************************)
(* Redis sorted-set commands, on a set of member/score entries.            *)
(***************************************************************************)
Members(q) == {e.member : e \in q}

\* ZSCORE: the score of the member, NoScore (None) when it is not queued.
ZScore(q, m) ==
    IF \E e \in q : e.member = m
    THEN (CHOOSE e \in q : e.member = m).score
    ELSE NoScore

ZCard(q) == Cardinality(q)

\* A variant of ZADD that keys entries by member and score together.
ZAddKeepOld(q, m, s) == q \cup {[member |-> m, score |-> s]}

\* ZADD queue {member: score}: one entry per member, the score is replaced.
ZAdd(q, m, s) == {e \in q : e.member # m} \cup {[member |-> m, score |-> s]}

ZRem(q, m) == {e \in q : e.member # m}

\* Order of the sorted set: by score, ties by member.
EntryLess(a, b) ==
    ScoreLess(a.score, b.score) \/ (a.score = b.score /\ a.member < b.member)

\* A variant that takes the highest entry, as ZPOPMAX does.
ZMax(q) == CHOOSE a \in q : \A b \in q : b = a \/ EntryLess(b, a)

ZMin(q) == CHOOSE a \in q : \A b \in q : b = a \/ EntryLess(a, b)

\* ZPOPMIN queue n: the n lowest entries, lowest first.
RECURSIVE ZPopMinSeq(_, _)
ZPopMinSeq(q, n) ==
    IF n = 0 \/ q = {} THEN <<>>
    ELSE <<ZMin(q)>> \o ZPopMinSeq(q \ {ZMin(q)}, n - 1)

SeqRange(s) == {s[i] : i \in 1..Len(s)}

(***************************************************************************)
(* Requests.                                                               *)
(***************************************************************************)
NoResp == [op |-> "none", user_id |-> 0, kind |-> "none", token |-> 0,
           match_id |-> 0, opponent_id |-> 0, code |-> 0]

Resp(pr, kind, token, match_id, opponent_id, code) ==
    [op |-> pr.op, user_id |-> pr.user_id, kind |-> kind, token |-> token,
     match_id |-> match_id, opponent_id |-> opponent_id, code |-> code]

\* Locals of a request that is not being served.
IdleProc ==
    [pc |-> "idle", op |-> "none", user_id |-> 0, watch |-> "none",
     existing_status |-> NoStatus, already_waiting |-> NoScore,
     queue_len |-> 0, token |-> 0, players |-> <<>>,
     player_tokens |-> <<>>, match_id |-> 0, timestamp |-> 0,
     existing |-> <<>>]

\* A request of user u for operation op, just accepted.
NewProc(op, u) == [IdleProc EXCEPT !.op = op, !.user_id = u]

\* The request of p returns: its locals die.
Return(p) == [proc EXCEPT ![p] = IdleProc]

\* The payload a handler fetched with hget.  The handlers read its status,
\* token, match_id and opponent_id; queued_at of the copy is never read.
Fetched(payload) == [payload EXCEPT !.queued_at = NoScore]

\* A write to a watched key makes every other open WATCH fail at EXEC.  A
\* transaction that already waits for EXEC will raise WatchError whatever
\* it read: what it read is dropped here.
Touch(f, self) ==
    [q \in Procs |->
        IF q # self /\ f[q].watch = "clean"
        THEN IF f[q].pc = "e_exec"
             THEN [NewProc("enqueue", f[q].user_id) EXCEPT
                      !.pc = "e_exec", !.watch = "dirty"]
             ELSE [f[q] EXCEPT !.watch = "dirty"]
        ELSE f[q]]

(***************************************************************************)
(* _ensure_tokens: the caller's token first, then the tokens stored for    *)
(* the other players, then fresh uuid4 values, in dict insertion order.    *)
(***************************************************************************)
RECURSIVE Dedup(_)
Dedup(s) ==
    IF s = <<>> THEN <<>>
    ELSE LET h == Head(s)
             t == Dedup(Tail(s))
         IN <<h>> \o SelectSeq(t, LAMBDA x : x # h)

HasToken(pts, pid) == \E i \in 1..Len(pts) : pts[i][1] = pid /\ pts[i][2] # 0

TokenOf(pts, pid) ==
    IF HasToken(pts, pid)
    THEN pts[CHOOSE i \in 1..Len(pts) : pts[i][1] = pid /\ pts[i][2] # 0][2]
    ELSE 0

_ensure_tokens(st, player_ids, provided, fresh) ==
    LET missing == Dedup(SelectSeq(player_ids,
                            LAMBDA pid : ~HasToken(provided, pid)))
        stored == SelectSeq(missing, LAMBDA pid : st[pid].token # 0)
        rest == SelectSeq(missing, LAMBDA pid : st[pid].token = 0)
    IN provided
       \o [i \in 1..Len(stored) |-> <<stored[i], st[stored[i]].token>>]
       \o [i \in 1..Len(rest) |-> <<rest[i], fresh + i - 1>>]

\* Number of uuid4 values _ensure_tokens draws.
FreshNeeded(st, player_ids, provided) ==
    Len(SelectSeq(Dedup(SelectSeq(player_ids,
                            LAMBDA pid : ~HasToken(provided, pid))),
                  LAMBDA pid : st[pid].token = 0))

(***************************************************************************)
(* POST /enqueue.                                                          *)
(***************************************************************************)
\* _validate_player_profile answered false (or the players service failed).
EnqueueNoProfile(p, u) ==
    /\ proc[p].pc = "idle"
    /\ out' = Resp(NewProc("enqueue", u), "NoProfile", 0, 0, 0, 403)
    /\ UNCHANGED <<queue, status, clock, nextToken, nextMatch, proc>>
    /\ UNCHANGED <<max_size, geVars>>

\* _enqueue_atomic: WATCH both keys, HGET the caller's status.  Taken by a
\* new request and by one that starts the loop over.
EnqueueWatch(p, u) ==
    /\ \/ proc[p].pc = "idle"
       \/ proc[p].pc = "e_watch" /\ proc[p].user_id = u
    /\ LET existing_status == Fetched(status[u])
           me == NewProc("enqueue", u)
       IN IF existing_status.status = MATCHED /\ existing_status.match_id # 0
          THEN /\ proc' = Return(p)
               /\ out' = Resp(me, "Matched", existing_status.token,
                              existing_status.match_id,
                              existing_status.opponent_id, 200)
          ELSE /\ proc' = [proc EXCEPT ![p] =
                    [me EXCEPT !.pc = "e_zscore", !.watch = "clean",
                               !.existing_status = existing_status]]
               /\ out' = NoResp
    /\ UNCHANGED <<queue, status, clock, nextToken, nextMatch>>
    /\ UNCHANGED <<max_size, geVars>>

\* already_waiting = pipe.zscore(queue_key, user_id)
EnqueueZScore(p) ==
    /\ proc[p].pc = "e_zscore"
    /\ proc' = [proc EXCEPT ![p].pc = "e_zcard",
                            ![p].already_waiting =
                                ZScore(queue, proc[p].user_id)]
    /\ out' = NoResp
    /\ UNCHANGED <<queue, status, clock, nextToken, nextMatch>>
    /\ UNCHANGED <<max_size, geVars>>

should_add(pr) == pr.already_waiting = NoScore

should_update_status(pr) == pr.existing_status.status # WAITING

queue_after_add(pr) == pr.queue_len + (IF should_add(pr) THEN 1 ELSE 0)

\* A variant that pairs as soon as one player is queued.
should_match_1(pr) == queue_after_add(pr) >= 1

should_match(pr) == queue_after_add(pr) >= 2

\* queue_len = pipe.zcard(queue_key), then the decisions taken on the reads.
EnqueueZCard(p) ==
    /\ proc[p].pc = "e_zcard"
    /\ LET pr == [proc[p] EXCEPT !.queue_len = ZCard(queue)]
       IN IF should_add(pr) /\ max_size > 0
                            /\ pr.queue_len >= max_size
          THEN /\ proc' = Return(p)
               /\ out' = Resp(pr, "Full", 0, 0, 0, 409)
          ELSE IF ~should_add(pr) /\ ~should_match(pr)
                    /\ ~should_update_status(pr)
          THEN /\ proc' = Return(p)
               /\ out' = Resp(pr, "Waiting", pr.existing_status.token,
                              0, 0, 202)
          ELSE /\ proc' = [proc EXCEPT ![p] =
                    IF pr.watch = "dirty"
                    THEN [NewProc("enqueue", pr.user_id) EXCEPT
                             !.pc = "e_exec", !.watch = "dirty"]
                    ELSE [pr EXCEPT !.pc = "e_exec"]]
               /\ out' = NoResp
    /\ UNCHANGED <<queue, status, clock, nextToken, nextMatch>>
    /\ UNCHANGED <<max_size, geVars>>

\* A variant in which the zadd of the aborted transaction is applied.
EnqueueWatchErrorPartial(p) ==
    /\ proc[p].pc = "e_exec"
    /\ proc[p].watch = "dirty"
    /\ queue' = ZAdd(queue, proc[p].user_id, [t |-> clock, e |-> 0])
    /\ proc' = [proc EXCEPT ![p] =
                  [NewProc("enqueue", proc[p].user_id) EXCEPT
                      !.pc = "e_watch"]]
    /\ out' = NoResp
    /\ UNCHANGED <<status, clock, nextToken, nextMatch>>
    /\ UNCHANGED <<max_size, geVars>>

\* EXEC found a watched key modified: WatchError, the loop starts over.
EnqueueWatchError(p) ==
    /\ proc[p].pc = "e_exec"
    /\ proc[p].watch = "dirty"
    /\ proc' = [proc EXCEPT ![p] =
                  [NewProc("enqueue", proc[p].user_id) EXCEPT
                      !.pc = "e_watch"]]
    /\ out' = NoResp
    /\ UNCHANGED <<queue, status, clock, nextToken, nextMatch>>
    /\ UNCHANGED <<max_size, geVars>>

\* MULTI ... EXEC of _enqueue_atomic: zadd, hset and zpopmin(2) in one step.
\* The uuid4 and the time.time() the code takes just before MULTI are taken
\* here: a transaction that commits saw no write since its WATCH.
EnqueueExec(p) ==
    /\ proc[p].pc = "e_exec"
    /\ proc[p].watch = "clean"
    /\ clock < MaxClock
    /\ LET pr == proc[p]
           u == pr.user_id
           draw == pr.existing_status.token = 0
           token == IF draw THEN nextToken ELSE pr.existing_status.token
           now == [t |-> clock + 1, e |-> 0]
           q1 == IF should_add(pr) THEN ZAdd(queue, u, now) ELSE queue
           st1 == IF should_add(pr) \/ should_update_status(pr)
                  THEN [status EXCEPT ![u] = _waiting_payload(token, now)]
                  ELSE status
           popped == IF should_match(pr) THEN ZPopMinSeq(q1, 2) ELSE <<>>
           players == [i \in 1..Len(popped) |-> popped[i].member]
       IN /\ draw => nextToken <= TokenLimit
          /\ nextToken' = IF draw THEN nextToken + 1 ELSE nextToken
          /\ clock' = clock + 1
          /\ queue' = q1 \ SeqRange(popped)
          /\ status' = st1
          /\ IF should_match(pr)
             THEN /\ proc' = Touch([proc EXCEPT ![p] =
                        [NewProc("enqueue", u) EXCEPT
                            !.pc = "e_tokens", !.token = token,
                            !.players = players]], p)
                  /\ out' = NoResp
             ELSE /\ proc' = Touch(Return(p), p)
                  /\ out' = Resp(pr, "Waiting", token, 0, 0, 202)
    /\ UNCHANGED nextMatch
    /\ UNCHANGED <<max_size, geVars>>

\* _ensure_tokens(conn, status_key, players, {user_id: token}): one HMGET.
EnqueueTokens(p) ==
    /\ proc[p].pc = "e_tokens"
    /\ LET pr == proc[p]
           provided == << <<pr.user_id, pr.token>> >>
           n == FreshNeeded(status, pr.players, provided)
       IN /\ nextToken + n <= TokenLimit + 1
          /\ nextToken' = nextToken + n
          /\ proc' = [proc EXCEPT ![p].pc = "create",
                        ![p].player_tokens =
                            _ensure_tokens(status, pr.players, provided,
                                           nextToken)]
    /\ out' = NoResp
    /\ UNCHANGED <<queue, status, clock, nextMatch>>
    /\ UNCHANGED <<max_size, geVars>>

(***************************************************************************)
(* call_game_engine.                                                       *)
(***************************************************************************)
\* The Python values a request can carry for an id: an int, a bool, or the
\* str that spells a number.
PyInt(n) == [type |-> "int", value |-> n]

PyTrue == [type |-> "bool", value |-> 1]

PyStr(n) == [type |-> "str", value |-> n]

\* isinstance(v, int): bool is a subclass of int.
isinstance_int(v) == v.type \in {"int", "bool"}

\* Python ==: an int and a bool compare by value, a str equals only a str.
py_eq(a, b) ==
    IF a.type = "str" \/ b.type = "str" THEN a = b ELSE a.value = b.value

\* GameEngine.validate_match_creation.
validate_match_creation(player1_id, player2_id) ==
    /\ isinstance_int(player1_id) /\ isinstance_int(player2_id)
    /\ ~py_eq(player1_id, player2_id)

\* POST /matches/create answered 2xx with the id of the new match.
CreateOk(p) ==
    /\ proc[p].pc = "create"
    /\ Len(proc[p].players) >= 2
    /\ validate_match_creation(PyInt(proc[p].players[1]),
                               PyInt(proc[p].players[2]))
    /\ nextMatch <= MaxMatches
    /\ nextMatch' = nextMatch + 1
    /\ proc' = [proc EXCEPT ![p].pc = "sm_hget", ![p].match_id = nextMatch]
    /\ out' = NoResp
    /\ UNCHANGED <<queue, status, clock, nextToken>>
    /\ UNCHANGED <<max_size, geVars>>

\* The call raised RequestException or was answered non-2xx.
CreateFail(p) ==
    /\ proc[p].pc = "create"
    /\ Len(proc[p].players) >= 2
    /\ proc' = [proc EXCEPT ![p].pc = "rq_time"]
    /\ out' = NoResp
    /\ UNCHANGED <<queue, status, clock, nextToken, nextMatch>>
    /\ UNCHANGED <<max_size, geVars>>

\* _store_matched_statuses: existing = conn.hget(status_key, player_id),
\* once per player; the hset commands are buffered in the pipeline.
StoreMatchedHGet(p) ==
    /\ proc[p].pc = "sm_hget"
    /\ LET pr == proc[p]
           i == Len(pr.existing) + 1
           existing == Append(pr.existing, status[pr.players[i]].queued_at)
       IN proc' = [proc EXCEPT ![p].existing = existing,
                      ![p].pc = IF Len(existing) = Len(pr.players)
                                THEN "sm_exec" ELSE "sm_hget"]
    /\ out' = NoResp
    /\ UNCHANGED <<queue, status, clock, nextToken, nextMatch>>
    /\ UNCHANGED <<max_size, geVars>>

\* The status the pipeline of _store_matched_statuses leaves behind.
StoreMatched(st, pr) ==
    LET opponent(i) == pr.players[3 - i]
        idx(u) == CHOOSE i \in 1..2 : pr.players[i] = u
    IN [u \in DOMAIN st |->
          IF u \in SeqRange(pr.players)
          THEN _matched_payload(TokenOf(pr.player_tokens, u), pr.match_id,
                                opponent(idx(u)), pr.existing[idx(u)])
          ELSE st[u]]

\* pipe.execute() of _store_matched_statuses, then the engine's answer is
\* passed through to the caller.
StoreMatchedExec(p) ==
    /\ proc[p].pc = "sm_exec"
    /\ status' = StoreMatched(status, proc[p])
    /\ proc' = Touch(Return(p), p)
    /\ out' = Resp(proc[p], "EngineMatch", 0, proc[p].match_id, 0, 201)
    /\ UNCHANGED <<queue, clock, nextToken, nextMatch>>
    /\ UNCHANGED <<max_size, geVars>>

\* _requeue_players_atomic: timestamp = time.time()
RequeueTime(p) ==
    /\ proc[p].pc = "rq_time"
    /\ clock < MaxClock
    /\ clock' = clock + 1
    /\ proc' = [proc EXCEPT ![p].pc = "rq_exec", ![p].timestamp = clock + 1]
    /\ out' = NoResp
    /\ UNCHANGED <<queue, status, nextToken, nextMatch>>
    /\ UNCHANGED <<max_size, geVars>>

\* The queue after the zadd commands of the requeue pipeline, from item k on.
RECURSIVE RequeueQueue(_, _, _, _)
RequeueQueue(q, pts, k, ts) ==
    IF k > Len(pts) THEN q
    ELSE RequeueQueue(ZAdd(q, pts[k][1], [t |-> ts, e |-> k - 1]),
                      pts, k + 1, ts)

\* The status hash after the hset commands of the requeue pipeline.
RECURSIVE RequeueStatus(_, _, _, _)
RequeueStatus(st, pts, k, ts) ==
    IF k > Len(pts) THEN st
    ELSE RequeueStatus(
            [st EXCEPT ![pts[k][1]] =
                _waiting_payload(pts[k][2], [t |-> ts, e |-> k - 1])],
            pts, k + 1, ts)

\* pipe.execute() of _requeue_players_atomic, then the error is returned:
\* 503 after an exception, the engine's status code otherwise.
RequeueExec(p) ==
    /\ proc[p].pc = "rq_exec"
    /\ queue' = RequeueQueue(queue, proc[p].player_tokens, 1,
                             proc[p].timestamp)
    /\ status' = RequeueStatus(status, proc[p].player_tokens, 1,
                               proc[p].timestamp)
    /\ proc' = Touch(Return(p), p)
    /\ \E r \in {Resp(proc[p], "EngineUnavailable", 0, 0, 0, 503),
                 Resp(proc[p], "Requeued", 0, 0, 0, 500)} : out' = r
    /\ UNCHANGED <<clock, nextToken, nextMatch>>
    /\ UNCHANGED <<max_size, geVars>>

(***************************************************************************)
(* POST /dequeue.                                                          *)
(***************************************************************************)
\* status_payload = hget; a MATCHED payload is answered 409 at once.  The
\* body of the request carries a token (0: none); the handler never reads
\* it.
DequeueHGet(p, u, token) ==
    /\ proc[p].pc = "idle"
    /\ LET me == [NewProc("dequeue", u) EXCEPT !.token = token]
       IN IF status[u].status = MATCHED
          THEN /\ proc' = Return(p)
               /\ out' = Resp(me, "Matched", 0, status[u].match_id,
                              status[u].opponent_id, 409)
          ELSE /\ proc' = [proc EXCEPT ![p] = [me EXCEPT !.pc = "d_exec"]]
               /\ out' = NoResp
    /\ UNCHANGED <<queue, status, clock, nextToken, nextMatch>>
    /\ UNCHANGED <<max_size, geVars>>

\* Pipeline zrem + hdel; removed is the result of zrem.
DequeueExec(p) ==
    /\ proc[p].pc = "d_exec"
    /\ LET u == proc[p].user_id
           removed == u \in Members(queue)
       IN /\ queue' = ZRem(queue, u)
          /\ status' = [status EXCEPT ![u] = NoStatus]
          /\ proc' = IF removed \/ status[u] # NoStatus
                     THEN Touch(Return(p), p) ELSE Return(p)
          /\ out' = IF removed
                    THEN Resp(proc[p], "Removed", 0, 0, 0, 200)
                    ELSE Resp(proc[p], "NotInQueue", 0, 0, 0, 409)
    /\ UNCHANGED <<clock, nextToken, nextMatch>>
    /\ UNCHANGED <<max_size, geVars>>

(***************************************************************************)
(* GET /status?token=token_filter  (token_filter 0: no filter given).      *)
(***************************************************************************)
StatusHGet(p, u, token_filter) ==
    /\ proc[p].pc = "idle"
    /\ LET payload == Fetched(status[u])
           me == [NewProc("status", u) EXCEPT !.existing_status = payload]
       IN IF payload # NoStatus /\ token_filter # 0
                                /\ payload.token # token_filter
          THEN /\ proc' = Return(p)
               /\ out' = Resp(me, "Stale", 0, 0, 0, 409)
          ELSE /\ out' = NoResp
               /\ proc' = [proc EXCEPT ![p] =
                    IF payload.status = MATCHED /\ payload.match_id # 0
                    THEN [me EXCEPT !.pc = "s_hdel"]
                    ELSE IF payload.status = WAITING
                    THEN [me EXCEPT !.pc = "s_zscore"]
                    ELSE [me EXCEPT !.pc = "s_lookup"]]
    /\ UNCHANGED <<queue, status, clock, nextToken, nextMatch>>
    /\ UNCHANGED <<max_size, geVars>>

\* conn.hdel(status_key, user_id): the matched entry is deleted when read.
StatusHDel(p) ==
    /\ proc[p].pc = "s_hdel"
    /\ LET u == proc[p].user_id
           payload == proc[p].existing_status
       IN /\ status' = [status EXCEPT ![u] = NoStatus]
          /\ proc' = IF status[u] # NoStatus
                     THEN Touch(Return(p), p) ELSE Return(p)
          /\ out' = Resp(proc[p], "Matched", payload.token,
                         payload.match_id, payload.opponent_id, 200)
    /\ UNCHANGED <<queue, clock, nextToken, nextMatch>>
    /\ UNCHANGED <<max_size, geVars>>

\* Waiting payload with in_queue = zscore is not None.
StatusWaiting(p) ==
    /\ proc[p].pc = "s_zscore"
    /\ proc' = Return(p)
    /\ out' = Resp(proc[p],
                   IF proc[p].user_id \in Members(queue)
                   THEN "Waiting" ELSE "WaitingNotInQueue",
                   proc[p].existing_status.token, 0, 0, 200)
    /\ UNCHANGED <<queue, status, clock, nextToken, nextMatch>>
    /\ UNCHANGED <<max_size, geVars>>

\* _lookup_active_match found a SETUP or IN_PROGRESS match in the engine.
StatusLookupFound(p) ==
    /\ proc[p].pc = "s_lookup"
    /\ proc' = Return(p)
    /\ \E m \in 1..(nextMatch - 1), o \in Users \ {proc[p].user_id} :
          out' = Resp(proc[p], "MatchedByEngine", 0, m, o, 200)
    /\ UNCHANGED <<queue, status, clock, nextToken, nextMatch>>
    /\ UNCHANGED <<max_size, geVars>>

\* _lookup_active_match returned None, then in_queue = zscore is not None:
\* a queued player without status gets a fresh token, any other is NotQueued.
StatusLookupNone(p) ==
    /\ proc[p].pc = "s_lookup"
    /\ IF proc[p].user_id \in Members(queue)
       THEN /\ nextToken <= TokenLimit
            /\ nextToken' = nextToken + 1
            /\ proc' = [proc EXCEPT ![p].pc = "s_store",
                                    ![p].token = nextToken]
            /\ out' = NoResp
       ELSE /\ nextToken' = nextToken
            /\ proc' = Return(p)
            /\ out' = Resp(proc[p], "NotQueued", 0, 0, 0, 404)
    /\ UNCHANGED <<queue, status, clock, nextMatch>>
    /\ UNCHANGED <<max_size, geVars>>

\* _store_waiting_statuses(conn, status_key, {user_id: token})
StatusStoreWaiting(p) ==
    /\ proc[p].pc = "s_store"
    /\ clock < MaxClock
    /\ clock' = clock + 1
    /\ status' = [status EXCEPT ![proc[p].user_id] =
                    _waiting_payload(proc[p].token,
                                     [t |-> clock + 1, e |-> 0])]
    /\ proc' = Touch(Return(p), p)
    /\ out' = Resp(proc[p], "Waiting", proc[p].token, 0, 0, 200)
    /\ UNCHANGED <<queue, nextToken, nextMatch>>
    /\ UNCHANGED <<max_size, geVars>>

(***************************************************************************)
(* The matchmaking coordinator.                                            *)
(***************************************************************************)
InitMM ==
    /\ queue = {}
    /\ status = [u \in Users |-> NoStatus]
    /\ clock = 0
    /\ nextToken = 1
    /\ nextMatch = 1
    /\ proc = [p \in Procs |-> IdleProc]
    /\ out = NoResp

\* The deployment sets a cap on the queue, or none.
InitConfig == max_size \in 0..MaxQueueSize

NextMM ==
    \/ \E p \in Procs, u \in Users : EnqueueNoProfile(p, u)
    \/ \E p \in Procs, u \in Users : EnqueueWatch(p, u)
    \/ \E p \in Procs : EnqueueZScore(p)
    \/ \E p \in Procs : EnqueueZCard(p)
    \/ \E p \in Procs : EnqueueWatchError(p)
    \/ \E p \in Procs : EnqueueExec(p)
    \/ \E p \in Procs : EnqueueTokens(p)
    \/ \E p \in Procs : CreateOk(p)
    \/ \E p \in Procs : CreateFail(p)
    \/ \E p \in Procs : StoreMatchedHGet(p)
    \/ \E p \in Procs : StoreMatchedExec(p)
    \/ \E p \in Procs : RequeueTime(p)
    \/ \E p \in Procs : RequeueExec(p)
    \/ \E p \in Procs, u \in Users, token \in 0..MaxTokens :
          DequeueHGet(p, u, token)
    \/ \E p \in Procs : DequeueExec(p)
    \/ \E p \in Procs, u \in Users, tf \in 0..MaxTokens : StatusHGet(p, u, tf)
    \/ \E p \in Procs : StatusHDel(p)
    \/ \E p \in Procs : StatusWaiting(p)
    \/ \E p \in Procs : StatusLookupFound(p)
    \/ \E p \in Procs : StatusLookupNone(p)
    \/ \E p \in Procs : StatusStoreWaiting(p)

(***************************************************************************)
(* Part II.  The game engine: one Match row and its Round rows in a store  *)
(* that honours SELECT ... FOR UPDATE and runs READ COMMITTED.  A deck is   *)
(* the set of the keys of the stored card_id -> stats mapping; the store   *)
(* returns card ids as they were written.                                  *)
(***************************************************************************)
MAX_ROUNDS == 2        \* rounds of a match (10 in game_engine.py)
DECK_SIZE == 2         \* cards of a deck (10 in game_engine.py)
NumDecks == 2          \* disjoint decks the clients choose from
MaxDeckReqs == 3       \* submit_deck requests in flight
NumCallers == 3        \* users who call the engine

SETUP == "SETUP"
IN_PROGRESS == "IN_PROGRESS"
FINISHED == "FINISHED"

\* Python None in an id or card column, and in a deck column.
None == 0

NoDeck == {}

CARD_CATEGORIES == {"economy", "food", "environment", "special", "total"}

\* The categories random.choice(CARD_CATEGORIES) returns in the model.
Categories == {"economy", "food", "total"}

Cards == 1..(NumDecks * DECK_SIZE)

\* The users who call the engine; create_match is called for these pairs.
Callers == 1..NumCallers

CreateInputs ==
    {<<PyInt(1), PyInt(2)>>, <<PyInt(1), PyInt(1)>>, <<PyInt(-1), PyInt(2)>>,
     <<PyTrue, PyInt(2)>>, <<PyStr(1), PyStr(2)>>}

\* The k-th deck the clients choose from, as the list of ids they send.
DeckList(k) == [i \in 1..DECK_SIZE |-> (k - 1) * DECK_SIZE + i]

\* Lists the validation refuses: empty, one card short, one card repeated.
BadDeckLists ==
    {<<>>, [i \in 1..(DECK_SIZE - 1) |-> i], [i \in 1..DECK_SIZE |-> 1]}

DeckInputs == {DeckList(k) : k \in 1..NumDecks} \cup BadDeckLists

\* The stats the catalogue returns for a card, by category.
CardStat(card_id, category) ==
    CASE category = "economy" -> card_id
      [] category = "food" -> NumDecks * DECK_SIZE - card_id
      [] category = "environment" -> card_id % 2
      [] category = "special" -> card_id \div 2
      [] OTHER -> 1

\* No Match row, and the row Match.__init__ builds.
NoMatch ==
    [status |-> "none", player1_id |-> None, player2_id |-> None,
     player1_score |-> 0, player2_score |-> 0, winner_id |-> None,
     player1_deck |-> NoDeck, player2_deck |-> NoDeck]

Match(player1_id, player2_id) ==
    [status |-> SETUP, player1_id |-> player1_id, player2_id |-> player2_id,
     player1_score |-> 0, player2_score |-> 0, winner_id |-> None,
     player1_deck |-> NoDeck, player2_deck |-> NoDeck]

\* The row Round.__init__ builds.
Round(round_number, category) ==
    [round_number |-> round_number, category |-> category,
     player1_card_id |-> None, player2_card_id |-> None,
     winner_id |-> None]

NoRound == Round(0, "none")

\* No answer of a read, and the answer with an outcome and the ids of the
\* matches it lists.
NoReply == [code |-> "none", matches |-> {}]

Reply(code, matches) == [code |-> code, matches |-> matches]

is_complete(r) == r.player1_card_id # None /\ r.player2_card_id # None

(***************************************************************************)
(* RoundRepository.                                                        *)
(***************************************************************************)
\* A variant that returns the highest round whether or not it is complete.
find_current_round_any(rs) ==
    IF rs = {} THEN NoRound
    ELSE CHOOSE r \in rs : \A o \in rs : r.round_number >= o.round_number

find_current_incomplete_round(rs) ==
    LET open == {r \in rs : ~is_complete(r)}
    IN IF open = {} THEN NoRound
       ELSE CHOOSE r \in open :
                \A o \in open : r.round_number <= o.round_number

find_completed_rounds(rs) == {r \in rs : is_complete(r)}

\* A variant of the table without the unique constraint.
IntegrityErrorNever(rs, round_number) == FALSE

\* The unique constraint _match_round_number_uc refuses the insert.
IntegrityError(rs, round_number) ==
    \E r \in rs : r.round_number = round_number

(***************************************************************************)
(* GameEngine.                                                             *)
(***************************************************************************)
validate_deck_submission(deck_card_ids, player_id, m) ==
    IF deck_card_ids = <<>> THEN "EMPTY_DECK"
    ELSE IF m.status # SETUP THEN "WRONG_STATUS"
    ELSE IF player_id \notin {m.player1_id, m.player2_id}
    THEN "NOT_PARTICIPANT"
    ELSE IF Len(deck_card_ids) # DECK_SIZE THEN "WRONG_DECK_SIZE"
    ELSE IF Len(deck_card_ids) # Cardinality(SeqRange(deck_card_ids))
    THEN "DUPLICATE_CARDS"
    ELSE "OK"

should_start_match(m) ==
    m.player1_deck # NoDeck /\ m.player2_deck # NoDeck

\* A variant without the check of the player's slot in the current round.
validate_move_no_slot_check(player_id, card_id, m, current_round, all_rounds) ==
    IF m.status # IN_PROGRESS THEN "WRONG_STATUS"
    ELSE IF player_id \notin {m.player1_id, m.player2_id}
    THEN "NOT_PARTICIPANT"
    ELSE LET player_deck == IF player_id = m.player1_id
                            THEN m.player1_deck ELSE m.player2_deck
         IN IF player_deck = NoDeck THEN "NO_DECK"
            ELSE IF card_id \notin player_deck THEN "CARD_NOT_IN_DECK"
            ELSE IF \E r \in all_rounds :
                       card_id \in {r.player1_card_id, r.player2_card_id}
            THEN "CARD_ALREADY_PLAYED"
            ELSE "OK"

\* A variant without the check of the cards of earlier rounds.
validate_move_no_replay_check(player_id, card_id, m, current_round, all_rounds) ==
    IF m.status # IN_PROGRESS THEN "WRONG_STATUS"
    ELSE IF player_id \notin {m.player1_id, m.player2_id}
    THEN "NOT_PARTICIPANT"
    ELSE LET player_deck == IF player_id = m.player1_id
                            THEN m.player1_deck ELSE m.player2_deck
             is_player1 == player_id = m.player1_id
         IN IF player_deck = NoDeck THEN "NO_DECK"
            ELSE IF card_id \notin player_deck THEN "CARD_NOT_IN_DECK"
            ELSE IF current_round # NoRound /\ is_player1
                    /\ current_round.player1_card_id # None
            THEN "ALREADY_MOVED_THIS_ROUND"
            ELSE IF current_round # NoRound /\ ~is_player1
                    /\ current_round.player2_card_id # None
            THEN "ALREADY_MOVED_THIS_ROUND"
            ELSE "OK"

validate_move_submission(player_id, card_id, m, current_round, all_rounds) ==
    IF m.status # IN_PROGRESS THEN "WRONG_STATUS"
    ELSE IF player_id \notin {m.player1_id, m.player2_id}
    THEN "NOT_PARTICIPANT"
    ELSE LET player_deck == IF player_id = m.player1_id
                            THEN m.player1_deck ELSE m.player2_deck
             is_player1 == player_id = m.player1_id
         IN IF player_deck = NoDeck THEN "NO_DECK"
            ELSE IF card_id \notin player_deck THEN "CARD_NOT_IN_DECK"
            ELSE IF current_round # NoRound /\ is_player1
                    /\ current_round.player1_card_id # None
            THEN "ALREADY_MOVED_THIS_ROUND"
            ELSE IF current_round # NoRound /\ ~is_player1
                    /\ current_round.player2_card_id # None
            THEN "ALREADY_MOVED_THIS_ROUND"
            ELSE IF \E r \in all_rounds :
                       card_id \in {r.player1_card_id, r.player2_card_id}
            THEN "CARD_ALREADY_PLAYED"
            ELSE "OK"

\* get_card_stats raises KeyError for a card that is not in the deck.
KeyError(m, r) ==
    \/ r.player1_card_id \notin m.player1_deck
    \/ r.player2_card_id \notin m.player2_deck

calculate_round_scores(m, r) ==
    <<CardStat(r.player1_card_id, r.category),
      CardStat(r.player2_card_id, r.category)>>

\* A variant that gives a tied round to player 1.
calculate_round_winner_ties_p1(score_p1, score_p2, player1_id, player2_id) ==
    IF score_p1 >= score_p2 THEN player1_id ELSE player2_id

calculate_round_winner(score_p1, score_p2, player1_id, player2_id) ==
    IF score_p1 > score_p2 THEN player1_id
    ELSE IF score_p2 > score_p1 THEN player2_id
    ELSE None

\* A variant that counts a drawn round for player 1.
update_match_scores_draw_p1(m, round_winner_id) ==
    IF round_winner_id = m.player2_id
    THEN [m EXCEPT !.player2_score = m.player2_score + 1]
    ELSE [m EXCEPT !.player1_score = m.player1_score + 1]

update_match_scores(m, round_winner_id) ==
    IF round_winner_id = m.player1_id
    THEN [m EXCEPT !.player1_score = m.player1_score + 1]
    ELSE IF round_winner_id = m.player2_id
    THEN [m EXCEPT !.player2_score = m.player2_score + 1]
    ELSE m

should_end_match(rs) ==
    Cardinality({r \in rs : is_complete(r)}) >= MAX_ROUNDS

\* A variant that gives a drawn match to player 1.
determine_match_winner_p1(player1_score, player2_score, player1_id, player2_id) ==
    IF player1_score >= player2_score THEN player1_id ELSE player2_id

determine_match_winner(player1_score, player2_score, player1_id, player2_id) ==
    IF player1_score > player2_score THEN player1_id
    ELSE IF player2_score > player1_score THEN player2_id
    ELSE None

finalize_match(m) ==
    [m EXCEPT !.status = FINISHED,
              !.winner_id = determine_match_winner(
                                m.player1_score, m.player2_score,
                                m.player1_id, m.player2_id)]

get_next_round_number(rs) == Cardinality({r \in rs : is_complete(r)}) + 1

(***************************************************************************)
(* Requests of the game engine.  submit_move holds the row lock of the     *)
(* match from its first statement to its commit, so it is one step;        *)
(* submit_deck takes no lock and calls the catalogue between loading the   *)
(* match and writing it, so it is two.                                     *)
(***************************************************************************)
\* What a submit_deck session keeps of the match it loaded: of the decks
\* the handler reads only the other player's, and only whether it is None.
Loaded(m, player_id) ==
    [m EXCEPT !.player1_deck =
                  IF player_id = m.player1_id \/ @ = NoDeck THEN NoDeck
                  ELSE Cards,
              !.player2_deck =
                  IF player_id # m.player1_id \/ @ = NoDeck THEN NoDeck
                  ELSE Cards]

\* The row of the match after the UPDATE of a session that loaded it as
\* `loaded` and holds it as m: the attributes the session has changed.
UpdateMatch(row, loaded, m) ==
    [row EXCEPT
        !.player1_score =
            IF m.player1_score # loaded.player1_score
            THEN m.player1_score ELSE @,
        !.player2_score =
            IF m.player2_score # loaded.player2_score
            THEN m.player2_score ELSE @,
        !.status = IF m.status # loaded.status THEN m.status ELSE @,
        !.winner_id =
            IF m.winner_id # loaded.winner_id THEN m.winner_id ELSE @,
        !.player1_deck =
            IF m.player1_deck # loaded.player1_deck
            THEN m.player1_deck ELSE @,
        !.player2_deck =
            IF m.player2_deck # loaded.player2_deck
            THEN m.player2_deck ELSE @]

\* MatchService.create_match: ValueError when the validation fails.  The
\* Integer columns of the row hold the number (1 for True).
create_match(m, player1_id, player2_id) ==
    IF validate_match_creation(player1_id, player2_id)
    THEN [code |-> "Created",
          match |-> Match(player1_id.value, player2_id.value)]
    ELSE [code |-> "ValueError", match |-> m]

CreateMatch(player1_id, player2_id) ==
    /\ match = NoMatch
    /\ match' = create_match(match, player1_id, player2_id).match
    /\ reply' = NoReply
    /\ UNCHANGED <<rounds, deckReq, mmVars, max_size>>

\* MatchService.submit_deck up to the call of the catalogue: the match is
\* loaded without a lock and the submission is validated.
submit_deck_load(m, player_id, deck_card_ids) ==
    IF m = NoMatch THEN "NotFound"
    ELSE validate_deck_submission(deck_card_ids, player_id, m)

SubmitDeckLoad(player_id, deck_card_ids) ==
    /\ BagCardinality(deckReq) < MaxDeckReqs
    /\ deckReq' =
          IF submit_deck_load(match, player_id, deck_card_ids) = "OK"
          THEN deckReq (+) SetToBag({
                  [player_id |-> player_id,
                   deck_card_ids |-> deck_card_ids,
                   match |-> Loaded(match, player_id)]})
          ELSE deckReq
    /\ reply' = NoReply
    /\ UNCHANGED <<match, rounds, mmVars, max_size>>

\* A variant that assigns and flushes the deck before it calls the
\* catalogue.
submit_deck_fetch_fail_deck_kept(row, rs, req) ==
    [code |-> "RuntimeError",
     match |-> IF req.player_id = row.player1_id
               THEN [row EXCEPT !.player1_deck = SeqRange(req.deck_card_ids)]
               ELSE [row EXCEPT !.player2_deck = SeqRange(req.deck_card_ids)],
     rounds |-> rs]

\* submit_deck when _fetch_card_stats_from_ids raises (the catalogue is
\* unreachable, times out, answers non-200 or sends no data): the exception
\* leaves the handler before a deck is assigned, and nothing is committed.
submit_deck_fetch_fail(row, rs, req) ==
    [code |-> "RuntimeError", match |-> row, rounds |-> rs]

SubmitDeckFetchFail ==
    /\ \E req \in BagToSet(deckReq) :
          /\ match' = submit_deck_fetch_fail(match, rounds, req).match
          /\ rounds' = submit_deck_fetch_fail(match, rounds, req).rounds
          /\ deckReq' = deckReq (-) SetToBag({req})
    /\ reply' = NoReply
    /\ UNCHANGED <<mmVars, max_size>>

\* The rest of submit_deck on the rows of the store: the deck is stored
\* and, when the session sees both decks, the match is started and its
\* next round inserted; the rounds are loaded for that at this moment.
submit_deck_commit(row, rs, req, category) ==
    LET validated_deck == SeqRange(req.deck_card_ids)
        m == IF req.player_id = req.match.player1_id
             THEN [req.match EXCEPT !.player1_deck = validated_deck]
             ELSE [req.match EXCEPT !.player2_deck = validated_deck]
        started == [m EXCEPT !.status = IN_PROGRESS]
        round_number == get_next_round_number(rs)
    IN IF ~should_start_match(m)
       THEN [code |-> "DeckAccepted",
             match |-> UpdateMatch(row, req.match, m), rounds |-> rs]
       ELSE IF IntegrityError(rs, round_number)
       THEN [code |-> "IntegrityError", match |-> row, rounds |-> rs]
       ELSE [code |-> "MatchStarted",
             match |-> UpdateMatch(row, req.match, started),
             rounds |-> rs \cup {Round(round_number, category)}]

\* The category is drawn when a round is inserted.
DeckCategories(req) ==
    IF submit_deck_commit(match, rounds, req, "total").code = "MatchStarted"
    THEN Categories ELSE {"total"}

SubmitDeckCommit ==
    /\ \E req \in BagToSet(deckReq) : \E category \in DeckCategories(req) :
          /\ match' = submit_deck_commit(match, rounds, req, category).match
          /\ rounds' =
                submit_deck_commit(match, rounds, req, category).rounds
          /\ deckReq' = deckReq (-) SetToBag({req})
    /\ reply' = NoReply
    /\ UNCHANGED <<mmVars, max_size>>

\* The card is recorded in the slot of the player.
RecordMove(r, is_player1, card_id) ==
    IF is_player1 THEN [r EXCEPT !.player1_card_id = card_id]
    ELSE [r EXCEPT !.player2_card_id = card_id]

\* A variant that resolves the round and leaves the next round to be
\* created by a later request.
_process_round_no_next(m, rs, current_round, category) ==
    LET scores == calculate_round_scores(m, current_round)
        round_winner_id ==
            calculate_round_winner(scores[1], scores[2],
                                   m.player1_id, m.player2_id)
        done == [current_round EXCEPT !.winner_id = round_winner_id]
        rs1 == {r \in rs : r.round_number # done.round_number}
                  \cup {done}
        m1 == update_match_scores(m, round_winner_id)
    IN IF KeyError(m, current_round)
       THEN [code |-> "KeyError", match |-> m, rounds |-> rs]
       ELSE IF should_end_match(rs1)
       THEN [code |-> "ROUND_PROCESSED", match |-> finalize_match(m1),
             rounds |-> rs1]
       ELSE [code |-> "ROUND_PROCESSED", match |-> m1, rounds |-> rs1]

\* _process_round on the round that has just become complete: the match
\* and the rounds as the session leaves them, or the exception raised.
_process_round(m, rs, current_round, category) ==
    LET scores == calculate_round_scores(m, current_round)
        round_winner_id ==
            calculate_round_winner(scores[1], scores[2],
                                   m.player1_id, m.player2_id)
        done == [current_round EXCEPT !.winner_id = round_winner_id]
        rs1 == {r \in rs : r.round_number # done.round_number}
                  \cup {done}
        m1 == update_match_scores(m, round_winner_id)
    IN IF KeyError(m, current_round)
       THEN [code |-> "KeyError", match |-> m, rounds |-> rs]
       ELSE IF should_end_match(rs1)
       THEN [code |-> "ROUND_PROCESSED", match |-> finalize_match(m1),
             rounds |-> rs1]
       ELSE IF IntegrityError(rs1, get_next_round_number(rs1))
       THEN [code |-> "IntegrityError", match |-> m, rounds |-> rs]
       ELSE [code |-> "ROUND_PROCESSED", match |-> m1,
             rounds |-> rs1 \cup
                 {Round(get_next_round_number(rs1), category)}]

\* A variant that records the card in the open round before it compares
\* the round number and validates the move, and commits on every path.
submit_move_record_first(m, rs, player_id, card_id, round_number, category) ==
    LET expected_round == find_current_incomplete_round(rs)
        all_rounds == find_completed_rounds(rs)
        code == validate_move_submission(player_id, card_id, m,
                                         expected_round, all_rounds)
        current_round == RecordMove(expected_round,
                                    player_id = m.player1_id, card_id)
        rs1 == {r \in rs : r.round_number # current_round.round_number}
                  \cup {current_round}
    IN IF m = NoMatch
       THEN [code |-> "NotFound", match |-> m, rounds |-> rs]
       ELSE IF expected_round = NoRound
       THEN [code |-> "NoActiveRound", match |-> m, rounds |-> rs]
       ELSE IF expected_round.round_number # round_number
       THEN [code |-> "WrongRound", match |-> m, rounds |-> rs1]
       ELSE IF code # "OK"
       THEN [code |-> code, match |-> m, rounds |-> rs1]
       ELSE IF ~is_complete(current_round)
       THEN [code |-> "WAITING_FOR_OPPONENT", match |-> m, rounds |-> rs1]
       ELSE _process_round(m, rs, current_round, category)

\* MatchService.submit_move on the locked match m with rounds rs: the
\* outcome, and the match and rounds it commits.
submit_move(m, rs, player_id, card_id, round_number, category) ==
    LET expected_round == find_current_incomplete_round(rs)
        all_rounds == find_completed_rounds(rs)
        code == validate_move_submission(player_id, card_id, m,
                                         expected_round, all_rounds)
        current_round == RecordMove(expected_round,
                                    player_id = m.player1_id, card_id)
        rs1 == {r \in rs : r.round_number # current_round.round_number}
                  \cup {current_round}
    IN IF m = NoMatch
       THEN [code |-> "NotFound", match |-> m, rounds |-> rs]
       ELSE IF expected_round = NoRound
       THEN [code |-> "NoActiveRound", match |-> m, rounds |-> rs]
       ELSE IF expected_round.round_number # round_number
       THEN [code |-> "WrongRound", match |-> m, rounds |-> rs]
       ELSE IF code # "OK"
       THEN [code |-> code, match |-> m, rounds |-> rs]
       ELSE IF ~is_complete(current_round)
       THEN [code |-> "WAITING_FOR_OPPONENT", match |-> m, rounds |-> rs1]
       ELSE _process_round(m, rs, current_round, category)

\* The category is drawn when a round is inserted.
MoveCategories(player_id, card_id, round_number) ==
    IF Cardinality(submit_move(match, rounds, player_id, card_id,
                               round_number, "total").rounds)
          > Cardinality(rounds)
    THEN Categories ELSE {"total"}

SubmitMove(player_id, card_id, round_number) ==
    /\ \E category \in MoveCategories(player_id, card_id, round_number) :
          /\ match' = submit_move(match, rounds, player_id, card_id,
                                  round_number, category).match
          /\ rounds' = submit_move(match, rounds, player_id, card_id,
                                   round_number, category).rounds
    /\ reply' = NoReply
    /\ UNCHANGED <<deckReq, mmVars, max_size>>

(***************************************************************************)
(* Reads of the game engine.  The store holds the one match, with id 1.    *)
(***************************************************************************)
\* The match ids the clients ask for: the match of the store and another.
MatchIds == {1, 2}

\* The requester ids the routes pass on; 0 is falsy in Python, as None is.
Requesters == 0..NumCallers

\* What the players service answers to the friendship validation.
Friendship == {"valid", "invalid", "non200", "unreachable"}

\* MatchRepository.find_by_id: None when there is no row with that id.
find_by_id(match_id) == IF match_id = 1 THEN match ELSE NoMatch

\* RoundRepository queries by match_id.
rounds_of(match_id) == IF match_id = 1 THEN rounds ELSE {}

\* MatchService.get_match reads match.player1_id before it tests match:
\* on None that raises AttributeError, and LookupError is never raised.
get_match(m, requester_id) ==
    IF m = NoMatch THEN "AttributeError"
    ELSE IF m.player1_id # requester_id /\ m.player2_id # requester_id
    THEN "PermissionError"
    ELSE "OK"

get_round_status(current_round) ==
    IF current_round = NoRound THEN "WAITING_FOR_BOTH_PLAYERS"
    ELSE IF current_round.player1_card_id = None
            /\ current_round.player2_card_id = None
    THEN "WAITING_FOR_BOTH_PLAYERS"
    ELSE IF ~is_complete(current_round) THEN "WAITING_FOR_ONE_PLAYER"
    ELSE "ROUND_COMPLETE"

get_current_round_status(m, rs, requester_id) ==
    IF get_match(m, requester_id) # "OK" THEN get_match(m, requester_id)
    ELSE get_round_status(find_current_incomplete_round(rs))

\* MatchRepository.find_for_player: the matches player_id takes part in.
find_for_player(player_id) ==
    IF match # NoMatch /\ player_id \in {match.player1_id, match.player2_id}
    THEN {1} ELSE {}

\* _validate_friendship: the exception it raises, or OK.
_validate_friendship(response) ==
    CASE response = "unreachable" -> "RuntimeError"
      [] response = "non200" -> "PermissionError"
      [] response = "invalid" -> "PermissionError"
      [] OTHER -> "OK"

\* get_player_history: friendship is checked only when requester_id is
\* truthy and differs from player_id.
get_player_history(player_id, requester_id, response) ==
    IF requester_id # None /\ requester_id # player_id
          /\ _validate_friendship(response) # "OK"
    THEN Reply(_validate_friendship(response), {})
    ELSE Reply("OK", find_for_player(player_id))

GetMatch(match_id, requester_id) ==
    /\ reply' = Reply(get_match(find_by_id(match_id), requester_id), {})
    /\ UNCHANGED <<match, rounds, deckReq, mmVars, max_size>>

GetCurrentRoundStatus(match_id, requester_id) ==
    /\ reply' = Reply(get_current_round_status(find_by_id(match_id),
                                               rounds_of(match_id),
                                               requester_id), {})
    /\ UNCHANGED <<match, rounds, deckReq, mmVars, max_size>>

GetPlayerHistory(player_id, requester_id, response) ==
    /\ reply' = get_player_history(player_id, requester_id, response)
    /\ UNCHANGED <<match, rounds, deckReq, mmVars, max_size>>

(***************************************************************************)
(* The game engine.                                                        *)
(***************************************************************************)
InitGE ==
    /\ match = NoMatch
    /\ rounds = {}
    /\ deckReq = EmptyBag
    /\ reply = NoReply

NextGE ==
    \/ \E c \in CreateInputs : CreateMatch(c[1], c[2])
    \/ \E player_id \in Callers, d \in DeckInputs :
          SubmitDeckLoad(player_id, d)
    \/ SubmitDeckFetchFail
    \/ SubmitDeckCommit
    \/ \E player_id \in Callers, card_id \in Cards,
          round_number \in 1..(MAX_ROUNDS + 1) :
          SubmitMove(player_id, card_id, round_number)

\* The engine on its own: the coordinator stays in its initial state.
InitSpecGE == InitMM /\ max_size = 0 /\ InitGE

SpecGE == InitSpecGE /\ [][NextGE]_vars

\* The engine with its reads.  A read changes no row, so it is enough to
\* take every read in every state the writes reach: a run is followed up to
\* its first read, whose answer stays in reply.
NextGERead ==
    \/ reply = NoReply /\ NextGE
    \/ /\ reply = NoReply
       /\ \E match_id \in MatchIds, requester_id \in Callers :
             GetMatch(match_id, requester_id)
    \/ /\ reply = NoReply
       /\ \E match_id \in MatchIds, requester_id \in Callers :
             GetCurrentRoundStatus(match_id, requester_id)
    \/ /\ reply = NoReply
       /\ \E player_id \in Callers, requester_id \in Requesters,
             response \in Friendship :
             GetPlayerHistory(player_id, requester_id, response)

SpecGERead == InitSpecGE /\ [][NextGERead]_vars

\* The coordinator on its own: the engine stays in its initial state.
InitSpecMM == InitMM /\ InitConfig /\ InitGE

SpecMM == InitSpecMM /\ [][NextMM]_vars

\* A deployment without a cap that has NumQueuers users and serves their
\* POST /enqueue requests only.
InitMM3 ==
    /\ queue = {}
    /\ status = [u \in Queuers |-> NoStatus]
    /\ clock = 0
    /\ nextToken = 1
    /\ nextMatch = 1
    /\ proc = [p \in Procs |-> IdleProc]
    /\ out = NoResp
    /\ max_size = 0

NextMM3 ==
    \/ \E p \in Procs, u \in Queuers : EnqueueWatch(p, u)
    \/ \E p \in Procs : EnqueueZScore(p)
    \/ \E p \in Procs : EnqueueZCard(p)
    \/ \E p \in Procs : EnqueueWatchError(p)
    \/ \E p \in Procs : EnqueueExec(p)
    \/ \E p \in Procs : EnqueueTokens(p)
    \/ \E p \in Procs : CreateOk(p)
    \/ \E p \in Procs : CreateFail(p)
    \/ \E p \in Procs : StoreMatchedHGet(p)
    \/ \E p \in Procs : StoreMatchedExec(p)
    \/ \E p \in Procs : RequeueTime(p)
    \/ \E p \in Procs : RequeueExec(p)

InitSpecMM3 == InitMM3 /\ InitGE

SpecMM3 == InitSpecMM3 /\ [][NextMM3]_vars

\* The next step of the Enqueue that request p is serving.
Serve(p) ==
    \/ proc[p].pc = "e_watch" /\ EnqueueWatch(p, proc[p].user_id)
    \/ EnqueueZScore(p)
    \/ EnqueueZCard(p)
    \/ EnqueueWatchError(p)
    \/ EnqueueExec(p)
    \/ EnqueueTokens(p)
    \/ CreateOk(p)
    \/ CreateFail(p)
    \/ StoreMatchedHGet(p)
    \/ StoreMatchedExec(p)
    \/ RequeueTime(p)
    \/ RequeueExec(p)

\* The same deployment with a server that keeps running every request it
\* has accepted: Redis answers each command, and the call to the engine
\* returns or times out.
SpecMM3Live ==
    /\ InitSpecMM3
    /\ [][NextMM3]_vars
    /\ \A p \in Procs : WF_vars(Serve(p))

(***************************************************************************)
(* Properties of the matchmaking coordinator.                              *)
(***************************************************************************)
\* Request p has just been answered after a failed create and its requeue.
RequeueAnswered == out.kind \in {"EngineUnavailable", "Requeued"}

\* C1: in every reachable state the queue holds at most one entry per user.
C1_OneEntryPerUser ==
    \A u \in Users : Cardinality({e \in queue : e.member = u}) <= 1

\* A failed create has put its pair back: every user is queued, once.
C1_Witness ==
    /\ RequeueAnswered
    /\ Members(queue) = Users
    /\ ZCard(queue) = NumUsers

\* C2: every request that is calling POST /matches/create carries exactly
\* the two users of one zpopmin(2), and they are distinct.
C2_CreateCarriesPair ==
    \A p \in Procs :
        proc[p].pc = "create" =>
            /\ Len(proc[p].players) = 2
            /\ proc[p].players[1] # proc[p].players[2]

C2_Witness ==
    \E p \in Procs :
        /\ proc[p].pc = "create"
        /\ proc[p].players = <<1, 2>>

\* C7: an Enqueue of a user whose status is WAITING with token t (read
\* under WATCH and still unmodified) is answered Waiting with t and leaves
\* the length of the queue unchanged.
C7_ReenqueueIdempotent ==
    [][\A p \in Procs :
          ( /\ proc[p].op = "enqueue"
            /\ proc[p].pc \in {"e_zcard", "e_exec"}
            /\ proc[p].watch = "clean"
            /\ proc[p].existing_status.status = WAITING
            /\ proc'[p].pc \notin {proc[p].pc, "e_exec"} )
          => /\ out' = Resp(proc[p], "Waiting",
                            proc[p].existing_status.token, 0, 0, 202)
             /\ ZCard(queue') = ZCard(queue)]_vars

\* C8: a status record that is MATCHED never becomes WAITING.
C8_MatchedNeverWaiting ==
    [][\A u \in Users :
          status[u].status = MATCHED => status'[u].status # WAITING]_vars

\* The requeue pipeline of request p is executed by this step.
RequeueStep(p) == proc[p].pc = "rq_exec" /\ proc'[p].pc = "idle"

\* User u was popped for the pair of request p and has since neither
\* dequeued nor enqueued again: the WAITING record of the pop is intact.
Untouched(p, u) ==
    /\ u \in SeqRange(proc[p].players)
    /\ u \notin Members(queue)
    /\ status[u].status = WAITING
    /\ status[u].token = TokenOf(proc[p].player_tokens, u)

\* C9: the requeue after a failed create puts an untouched user back at
\* the original enqueue score, and queued_at keeps that value.
C9_RequeueKeepsScore ==
    [][\A p \in Procs, u \in Users :
          RequeueStep(p) /\ Untouched(p, u)
          => /\ ZScore(queue', u) = status[u].queued_at
             /\ status'[u].queued_at = status[u].queued_at]_vars

\* C10: the requeue after a failed create leaves alone a popped user who
\* has dequeued: no queue entry and no WAITING record for that user.
C10_DequeuedStaysOut ==
    [][\A p \in Procs, u \in Users :
          ( /\ RequeueStep(p)
            /\ u \in SeqRange(proc[p].players)
            /\ u \notin Members(queue)
            /\ status[u] = NoStatus )
          => /\ u \notin Members(queue')
             /\ status'[u] = NoStatus]_vars


\* Request p takes a step of its handler.
StepOf(p) == proc'[p].pc # proc[p].pc

\* C11: a Status call leaves the queue and every status record unchanged;
\* in particular it does not consume a MATCHED record.
C11_StatusReadOnly ==
    [][\A p \in Procs :
          proc[p].op = "status" /\ StepOf(p)
          => queue' = queue /\ status' = status]_vars

\* C12: a Dequeue answered while the caller's record is MATCHED is answered
\* 409 with the match_id and opponent_id of the record, and no step of a
\* Dequeue changes a record that is MATCHED.
C12_DequeueKeepsMatched ==
    [][\A u \in Users :
          status[u].status = MATCHED =>
             /\ (out' # NoResp /\ out'.op = "dequeue" /\ out'.user_id = u)
                => /\ out'.code = 409
                   /\ out'.match_id = status[u].match_id
                   /\ out'.opponent_id = status[u].opponent_id
             /\ \A p \in Procs :
                   ( /\ proc[p].op = "dequeue"
                     /\ proc[p].user_id = u
                     /\ StepOf(p) )
                   => status'[u] = status[u]]_vars

\* C13: when the create call of request p has failed and the requeue is
\* executed, the caller is answered Waiting with its token, and both popped
\* users are in the queue with WAITING records that carry their tokens.
C13_FailureAnswersWaiting ==
    [][\A p \in Procs :
          RequeueStep(p) =>
             /\ out'.kind = "Waiting"
             /\ out'.token = proc[p].token
             /\ \A u \in SeqRange(proc[p].players) :
                   /\ u \in Members(queue')
                   /\ status'[u].status = WAITING
                   /\ status'[u].token =
                         TokenOf(proc[p].player_tokens, u)]_vars

\* Request p is the only one in service.
Alone(p) == \A q \in Procs \ {p} : proc[q].pc = "idle"

\* C14: user A is queued alone, user B enqueues and the create call
\* succeeds with match M, nothing else being in service: B is answered
\* Matched with match_id M and opponent_id A, the queue is empty, both
\* records are MATCHED with M, and a Status of A that follows is answered
\* Matched with M and opponent_id B.
C14_HappyPair ==
    [][\A p \in Procs :
          /\ ( /\ proc[p].pc = "sm_exec" /\ StepOf(p) /\ Alone(p)
               /\ Len(proc[p].players) = 2
               /\ proc[p].players[2] = proc[p].user_id )
             => /\ out'.kind = "Matched"
                /\ out'.match_id = proc[p].match_id
                /\ out'.opponent_id = proc[p].players[1]
                /\ queue' = {}
                /\ \A u \in SeqRange(proc[p].players) :
                      /\ status'[u].status = MATCHED
                      /\ status'[u].match_id = proc[p].match_id
          /\ ( /\ proc[p].pc = "s_hdel" /\ StepOf(p) /\ Alone(p) )
             => /\ out'.kind = "Matched"
                /\ out'.match_id = status[proc[p].user_id].match_id
                /\ out'.opponent_id =
                      status[proc[p].user_id].opponent_id]_vars

\* C22: the Dequeue of a user whose record is WAITING when the removal is
\* executed, presenting the token of that record, is answered Removed,
\* leaves that user with no queue entry and no record, and leaves the
\* entries and records of the other users alone.
C22_DequeueWaitingRemoves ==
    [][\A p \in Procs :
          ( /\ proc[p].pc = "d_exec" /\ StepOf(p)
            /\ status[proc[p].user_id].status = WAITING
            /\ status[proc[p].user_id].token = proc[p].token )
          => LET u == proc[p].user_id
             IN /\ out'.kind = "Removed" /\ out'.code = 200
                /\ u \notin Members(queue')
                /\ status'[u] = NoStatus
                /\ {e \in queue' : e.member # u}
                      = {e \in queue : e.member # u}
                /\ \A v \in Users \ {u} : status'[v] = status[v]]_vars


\* C23: a Dequeue that presents a token which is not the token of the
\* caller's status record (no record, or a record with another token) is
\* answered Invalid token (404) and changes neither the queue nor any
\* status record.
C23_DequeueInvalidToken ==
    [][\A p \in Procs :
          ( /\ proc[p].pc = "d_exec" /\ StepOf(p)
            /\ \/ status[proc[p].user_id] = NoStatus
               \/ status[proc[p].user_id].token # proc[p].token )
          => /\ out'.code = 404
             /\ queue' = queue
             /\ status' = status]_vars


\* The queue has reached the configured cap.
QueueFull == max_size > 0 /\ ZCard(queue) >= max_size

\* C24: an Enqueue of a user whose record is not WAITING, decided while the
\* queue length is at or above a cap that is set, is answered Full (409)
\* and leaves the queue and every record unchanged; without a cap no
\* Enqueue is answered Full.
C24_FullWhenCapped ==
    [][/\ \A p \in Procs, u \in Users :
             ( /\ EnqueueWatch(p, u)
               /\ status[u].status = MATCHED
               /\ QueueFull )
             => out'.kind = "Full"
       /\ \A p \in Procs :
             ( /\ proc[p].pc = "e_zcard" /\ StepOf(p)
               /\ proc[p].watch = "clean"
               /\ status[proc[p].user_id].status # WAITING
               /\ QueueFull )
             => /\ out' = Resp(proc[p], "Full", 0, 0, 0, 409)
                /\ queue' = queue
                /\ status' = status
       /\ out'.kind = "Full" => max_size > 0]_vars


\* C25: an Enqueue that a user sends while their record is MATCHED is not
\* answered with the old match: it goes on to queue the user under a fresh
\* token and is answered Waiting.
C25_ReenqueueAfterMatch ==
    [][\A p \in Procs, u \in Users :
          ( /\ proc[p].pc = "idle"
            /\ EnqueueWatch(p, u)
            /\ status[u].status = MATCHED )
          => /\ out'.kind # "Matched"
             /\ proc'[p].pc # "idle"]_vars

\* The transaction of request p commits with a pop in this step.
PopStep(p) == proc[p].pc = "e_exec" /\ proc'[p].pc = "e_tokens"

\* The entries the pop of request p chooses from: the queue, and the entry
\* of the caller when the caller is not queued yet.
PoolAtExec(p) ==
    queue \cup
       (IF proc[p].user_id \in Members(queue) THEN {}
        ELSE {[member |-> proc[p].user_id,
               score |-> [t |-> clock', e |-> 0]]})

\* No request is in service.
Quiet == \A p \in Procs : proc[p].pc = "idle"

\* Every reading of the clock was taken by the first Enqueue of a user who
\* drew a token: no user has been queued twice and no pair was put back.
EachEnqueuedOnce == clock = nextToken - 1

\* C31: the two users an Enqueue pops are the two entries with the
\* smallest scores among the queue and the caller's new entry, lowest
\* first, and the others stay queued; and when n users have enqueued, each
\* once, every create call has succeeded and no request is in service, the
\* queue holds n mod 2 users and a leftover is the user who enqueued last.
C31_FirstComeFirstServed ==
    /\ [][\A p \in Procs : PopStep(p) =>
             LET players == proc'[p].players
                 popped == {e \in PoolAtExec(p) :
                               e.member \in SeqRange(players)}
             IN /\ Len(players) = 2 /\ Cardinality(popped) = 2
                /\ queue' = PoolAtExec(p) \ popped
                /\ \A a \in popped, b \in queue' : EntryLess(a, b)
                /\ \A a, b \in popped :
                      (a.member = players[1] /\ b.member = players[2])
                         => EntryLess(a, b)]_vars
    /\ []((Quiet /\ EachEnqueuedOnce) =>
             /\ ZCard(queue) = (nextToken - 1) % 2
             /\ \A e \in queue :
                   /\ e.score = [t |-> clock, e |-> 0]
                   /\ status[e.member].status = WAITING)

\* Two users were put back after a failed create; a third user enqueues,
\* the pop takes the two earlier users and the third stays queued.
C31_Witness ==
    \E p \in Procs :
        /\ proc[p].pc = "e_tokens"
        /\ proc[p].user_id \notin SeqRange(proc[p].players)
        /\ Members(queue) = {proc[p].user_id}

\* Three users have enqueued one after another, the first two were paired
\* and the third is left in the queue.
C31_LeftoverReached ==
    /\ Quiet /\ EachEnqueuedOnce
    /\ nextToken = NumQueuers + 1
    /\ nextMatch = 2
    /\ ZCard(queue) = 1

(***************************************************************************)
(* Properties of the game engine.                                          *)
(***************************************************************************)
\* The cards player_id has on record in the rounds of the match.
SlotOf(r, player_id) ==
    IF player_id = match.player1_id THEN r.player1_card_id
    ELSE r.player2_card_id

Players == {match.player1_id, match.player2_id} \ {None}

CompletedRounds == {r \in rounds : is_complete(r)}

\* A submit_move that records a card answers with one of these.
Accepted == {"WAITING_FOR_OPPONENT", "ROUND_PROCESSED"}

\* C3: at most one card is recorded per (match, round_number, player):
\* a round number has one row, a slot that is filled keeps its card in
\* every step, and a SubmitMove of a player for a round in which their
\* slot is filled is rejected, whatever card it carries.
C3_OneCardPerSlot ==
    /\ [](/\ \A r, o \in rounds : r.round_number = o.round_number => r = o
          /\ \A r \in rounds : \A player_id \in Players :
                SlotOf(r, player_id) # None =>
                   \A card_id \in Cards, category \in Categories :
                      submit_move(match, rounds, player_id, card_id,
                                  r.round_number, category).code
                         \notin Accepted)
    /\ [][\A r \in rounds : \A player_id \in Players :
             SlotOf(r, player_id) # None =>
                \E n \in rounds' :
                   /\ n.round_number = r.round_number
                   /\ IF player_id = match.player1_id
                      THEN n.player1_card_id = r.player1_card_id
                      ELSE n.player2_card_id = r.player2_card_id]_vars

\* Player 1 has moved in the open round and the opponent has not: a second
\* move of player 1 with the other card of the deck is refused.
C3_Witness ==
    \E r \in rounds : \E card_id \in Cards :
        /\ match.status = IN_PROGRESS
        /\ r.player1_card_id # None /\ r.player2_card_id = None
        /\ card_id \in match.player1_deck
        /\ card_id # r.player1_card_id
        /\ submit_move(match, rounds, match.player1_id, card_id,
                       r.round_number, "total").code
              = "ALREADY_MOVED_THIS_ROUND"

\* C4: the cards a player has played across the rounds of the match are
\* pairwise distinct.
C4_NoCardReuse ==
    \A player_id \in Players : \A r, o \in rounds :
        /\ r.round_number # o.round_number
        /\ SlotOf(r, player_id) # None
        /\ SlotOf(o, player_id) # None
        => SlotOf(r, player_id) # SlotOf(o, player_id)

\* Both players have a card on record in two rounds.
C4_Witness ==
    \E r, o \in rounds :
        /\ r.round_number # o.round_number
        /\ is_complete(r) /\ is_complete(o)

\* C5: when the match is FINISHED the completed rounds are MAX_ROUNDS and
\* the two scores and the drawn rounds add up to the completed rounds.
C5_ScoreConsistency ==
    match.status = FINISHED =>
        /\ Cardinality(CompletedRounds) = MAX_ROUNDS
        /\ match.player1_score + match.player2_score
              + Cardinality({r \in CompletedRounds : r.winner_id = None})
              = Cardinality(CompletedRounds)

\* C6: when the match is FINISHED the winner is player 1 iff player 1 has
\* the higher score, player 2 iff player 2 has, and null iff they are equal.
C6_WinnerLaw ==
    match.status = FINISHED =>
        /\ match.winner_id = match.player1_id
              <=> match.player1_score > match.player2_score
        /\ match.winner_id = match.player2_id
              <=> match.player2_score > match.player1_score
        /\ match.winner_id = None
              <=> match.player1_score = match.player2_score

\* A match that ended in a draw after a round was won by each player.
C6_Witness ==
    /\ match.status = FINISHED
    /\ match.winner_id = None
    /\ match.player1_score = match.player2_score
    /\ match.player1_score > 0

BothDecks(m) == m.player1_deck # NoDeck /\ m.player2_deck # NoDeck

\* C15: as soon as both decks are present the match has left SETUP and
\* exactly one round #1 exists.
C15_DecksStartMatch ==
    BothDecks(match) =>
        /\ match.status # SETUP
        /\ Cardinality({r \in rounds : r.round_number = 1}) = 1

\* C16: the status moves only SETUP -> IN_PROGRESS -> FINISHED; it leaves
\* SETUP only in a step after which both decks are present, and leaves
\* IN_PROGRESS only in the step that brings the completed rounds to
\* MAX_ROUNDS.
C16_StatusMonotone ==
    [][match'.status # match.status =>
          /\ <<match.status, match'.status>> \in
                {<<"none", SETUP>>, <<SETUP, IN_PROGRESS>>,
                 <<IN_PROGRESS, FINISHED>>}
          /\ match.status = SETUP => BothDecks(match')
          /\ match.status = IN_PROGRESS =>
                /\ Cardinality(find_completed_rounds(rounds))
                      = MAX_ROUNDS - 1
                /\ Cardinality(find_completed_rounds(rounds'))
                      = MAX_ROUNDS]_vars

\* C17: a deck that has been stored is never changed afterwards.
C17_DecksImmutable ==
    [][/\ match.player1_deck # NoDeck
             => match'.player1_deck = match.player1_deck
       /\ match.player2_deck # NoDeck
             => match'.player2_deck = match.player2_deck]_vars

RoundNumbers(rs) == {r.round_number : r \in rs}

\* C18: one round per round_number, the numbers are 1..n without a gap,
\* and round N+1 exists only if round N is complete, so the only round
\* that can be incomplete is the highest-numbered one.
C18_RoundsContiguous ==
    /\ \A r, o \in rounds : r.round_number = o.round_number => r = o
    /\ RoundNumbers(rounds) = 1..Cardinality(rounds)
    /\ \A r, o \in rounds :
          o.round_number = r.round_number + 1 => is_complete(r)

\* Round 1 is complete and round 2 is open with one card on record.
C18_Witness ==
    \E r, o \in rounds :
        /\ r.round_number = 1 /\ is_complete(r)
        /\ o.round_number = 2 /\ ~is_complete(o)
        /\ o.player1_card_id # None

\* C19: the step that brings the completed rounds to MAX_ROUNDS finishes
\* the match and creates no round, so no round is numbered above
\* MAX_ROUNDS; the step that completes an earlier round creates exactly
\* one round, numbered completed rounds + 1.
C19_LastRoundFinalizes ==
    /\ [](\A r \in rounds : r.round_number <= MAX_ROUNDS)
    /\ [][LET before == Cardinality(find_completed_rounds(rounds))
              after == Cardinality(find_completed_rounds(rounds'))
          IN after = before + 1 =>
                IF after = MAX_ROUNDS
                THEN /\ match'.status = FINISHED
                     /\ RoundNumbers(rounds') = RoundNumbers(rounds)
                ELSE after < MAX_ROUNDS =>
                        /\ RoundNumbers(rounds') =
                              RoundNumbers(rounds) \cup {after + 1}
                        /\ Cardinality(rounds') =
                              Cardinality(rounds) + 1]_vars

\* Round r of the next state was resolved by this step.
Resolved(r) ==
    /\ r \in rounds' /\ is_complete(r)
    /\ \E o \in rounds : o.round_number = r.round_number /\ ~is_complete(o)

\* C20: the step that resolves a round sets its winner_id to the player
\* whose card has the strictly greater value in the round's category,
\* null when the values are equal, and adds exactly 1 to the score of that
\* player and nothing to the other; a draw changes neither score.
C20_RoundWinner ==
    [][\A r \in rounds' : Resolved(r) =>
          LET v1 == CardStat(r.player1_card_id, r.category)
              v2 == CardStat(r.player2_card_id, r.category)
          IN /\ r.winner_id = IF v1 > v2 THEN match.player1_id
                              ELSE IF v2 > v1 THEN match.player2_id
                              ELSE None
             /\ match'.player1_score =
                   match.player1_score + (IF v1 > v2 THEN 1 ELSE 0)
             /\ match'.player2_score =
                   match.player2_score + (IF v2 > v1 THEN 1 ELSE 0)]_vars

\* A round was drawn and a later one was won by player 2.
C20_Witness ==
    \E r, o \in rounds :
        /\ is_complete(r) /\ r.winner_id = None
        /\ is_complete(o) /\ o.winner_id = match.player2_id
        /\ match.player2_score = 1 /\ match.player1_score = 0

\* The round that is open for moves.
CurrentRound == find_current_incomplete_round(rounds)

\* C21: with the match IN_PROGRESS, a player who has a card on record in
\* the open round and sends the same move again is answered
\* ALREADY_MOVED_THIS_ROUND, and a player who has not moved in the open
\* round and sends a card they played in a completed round is answered
\* CARD_ALREADY_PLAYED.
C21_MoveReplayRejected ==
    (match.status = IN_PROGRESS /\ CurrentRound # NoRound) =>
        \A player_id \in Players : \A category \in Categories :
            /\ SlotOf(CurrentRound, player_id) # None =>
                  submit_move(match, rounds, player_id,
                              SlotOf(CurrentRound, player_id),
                              CurrentRound.round_number, category).code
                     = "ALREADY_MOVED_THIS_ROUND"
            /\ SlotOf(CurrentRound, player_id) = None =>
                  \A r \in CompletedRounds :
                      submit_move(match, rounds, player_id,
                                  SlotOf(r, player_id),
                                  CurrentRound.round_number, category).code
                         = "CARD_ALREADY_PLAYED"

\* The requests SubmitMove can carry.
MoveInputs ==
    Callers \X Cards \X (1..(MAX_ROUNDS + 1)) \X Categories

\* The outcome of the SubmitMove with input i in the current state.
MoveOutcome(i) == submit_move(match, rounds, i[1], i[2], i[3], i[4])

NotInProgress == match.status \in {SETUP, FINISHED}

\* C26 as stated: a SubmitMove on a match that is SETUP or FINISHED is
\* rejected with the validation code WRONG_STATUS and changes nothing.
C26_WrongStatus ==
    NotInProgress =>
        \A i \in MoveInputs :
            /\ MoveOutcome(i).code = "WRONG_STATUS"
            /\ MoveOutcome(i).match = match
            /\ MoveOutcome(i).rounds = rounds

\* C26 amended: a SubmitMove on a match that is SETUP or FINISHED is
\* rejected and changes nothing; such a match has no incomplete round, so
\* the rejection is "No active round available", raised before the move is
\* validated, and not the code WRONG_STATUS.
C26_NoActiveRound ==
    NotInProgress =>
        \A i \in MoveInputs :
            /\ MoveOutcome(i).code = "NoActiveRound"
            /\ MoveOutcome(i).match = match
            /\ MoveOutcome(i).rounds = rounds

\* The match is FINISHED with its rounds complete, and a player sends a
\* card of their deck for the last round.
C26_Witness ==
    /\ match.status = FINISHED
    /\ Cardinality(CompletedRounds) = MAX_ROUNDS
    /\ \E card_id \in match.player1_deck :
          submit_move(match, rounds, match.player1_id, card_id,
                      MAX_ROUNDS, "total").code = "NoActiveRound"

\* C27: GetMatch and GetCurrentRoundStatus for a match_id without a row
\* answer NotFound (LookupError) whoever asks, and for the match of the
\* store they answer PermissionError to a requester who is neither player.
C27_MissingMatchNotFound ==
    [][\A match_id \in MatchIds, requester_id \in Callers :
          ( \/ GetMatch(match_id, requester_id)
            \/ GetCurrentRoundStatus(match_id, requester_id) )
          => LET m == find_by_id(match_id)
             IN /\ m = NoMatch => reply'.code = "LookupError"
                /\ ( /\ m # NoMatch
                     /\ requester_id \notin {m.player1_id, m.player2_id} )
                   => reply'.code = "PermissionError"]_vars

\* C28: GetPlayerHistory answers a requester other than the player with
\* the history only if the friendship validation answered valid; when it
\* answered invalid or non-200, or the service was unreachable, no history
\* is returned.  Requester id 0 is included.
C28_HistoryFailClosed ==
    [][\A player_id \in Callers, requester_id \in Requesters,
          response \in Friendship :
          ( /\ GetPlayerHistory(player_id, requester_id, response)
            /\ requester_id # player_id
            /\ response # "valid" )
          => reply'.code # "OK"]_vars

\* A non-negative integer that is not a boolean.
NonNegativeInt(v) == v.type = "int" /\ v.value >= 0

\* C29: a CreateMatch that inserts a row was called with two different
\* non-negative integers (booleans are not integers), and the row is in
\* SETUP with both scores 0, no deck and no round.
C29_CreateMatchValidated ==
    [][\A c \in CreateInputs :
          (CreateMatch(c[1], c[2]) /\ match' # match)
          => /\ NonNegativeInt(c[1]) /\ NonNegativeInt(c[2])
             /\ c[1].value # c[2].value
             /\ match' = Match(c[1].value, c[2].value)
             /\ rounds' = {}]_vars

\* C30: when the catalogue call of a SubmitDeck fails, the step that ends
\* the request leaves both decks, the status and the rounds as they were.
C30_CatalogueFailureNoChange ==
    [][SubmitDeckFetchFail =>
          /\ match'.player1_deck = match.player1_deck
          /\ match'.player2_deck = match.player2_deck
          /\ match'.status = match.status
          /\ rounds' = rounds]_vars

\* A submit_deck is waiting for the catalogue and would change the match
\* if the catalogue answered: the opponent's deck is stored and the match
\* is still in SETUP.
C30_Witness ==
    \E req \in BagToSet(deckReq) :
        /\ match.status = SETUP
        /\ match.player1_deck # NoDeck
        /\ req.player_id = match.player2_id
        /\ submit_deck_commit(match, rounds, req, "total").match # match

\* C32: once the match is FINISHED no step changes its status, scores,
\* winner, decks or any of its rounds.
C32_FinishedFrozen ==
    [][match.status = FINISHED => match' = match /\ rounds' = rounds]_vars

\* C33: in every reachable state a user has an entry in the queue if and
\* only if the status record of that user exists and is WAITING.
C33_QueuedIffWaiting ==
    \A u \in Users : u \in Members(queue) <=> status[u].status = WAITING

\* The answers of a submit_move that is rejected: the match is not found,
\* no round is open, the round number is not the open round's, or the
\* validation returns a code.
Rejections ==
    {"NotFound", "NoActiveRound", "WrongRound", "WRONG_STATUS",
     "NOT_PARTICIPANT", "NO_DECK", "CARD_NOT_IN_DECK",
     "ALREADY_MOVED_THIS_ROUND", "CARD_ALREADY_PLAYED"}

\* C34: a SubmitMove that is rejected commits the match and the rounds as
\* they were: status, scores, winner, and the card slots and winner of every
\* round.
C34_RejectedMoveNoChange ==
    \A i \in MoveInputs :
        MoveOutcome(i).code \in Rejections =>
            /\ MoveOutcome(i).match = match
            /\ MoveOutcome(i).rounds = rounds

\* Round 2 is open with no card of player 1, and player 1 sends a card
\* of their deck that they have not played for round 1: the move is
\* refused for its round number alone.
C34_Witness ==
    /\ match.status = IN_PROGRESS
    /\ CurrentRound.round_number = 2
    /\ CurrentRound.player1_card_id = None
    /\ \E card_id \in match.player1_deck :
          /\ submit_move(match, rounds, match.player1_id, card_id,
                         1, "total").code = "WrongRound"
          /\ submit_move(match, rounds, match.player1_id, card_id,
                         2, "total").code \in Accepted

\* C35: an Enqueue that is answered with the match the engine created is
\* the Enqueue of one of the two popped users, who are the players of that
\* match; and an Enqueue answered Matched from the caller's record reports
\* an opponent other than the caller.
C35_MatchedGoesToPlayer ==
    [][/\ \A p \in Procs :
             ( /\ proc[p].op = "enqueue"
               /\ proc[p].pc = "sm_exec" /\ StepOf(p) )
             => /\ out'.match_id = proc[p].match_id
                /\ proc[p].user_id \in SeqRange(proc[p].players)
       /\ (out'.op = "enqueue" /\ out'.kind = "Matched")
             => /\ out'.opponent_id # out'.user_id
                /\ out'.opponent_id # 0]_vars

\* C36: in every reachable state a user whose status record is MATCHED has
\* no entry in the queue.
C36_MatchedNotQueued ==
    \A u \in Users : status[u].status = MATCHED => u \notin Members(queue)

\* C37: in every reachable state with the match IN_PROGRESS a round is
\* open, and each player who has not moved in it has a card that
\* SubmitMove accepts for it.
C37_MoveAvailable ==
    match.status = IN_PROGRESS =>
        /\ CurrentRound # NoRound
        /\ \A player_id \in Players :
              SlotOf(CurrentRound, player_id) = None =>
                 \E card_id \in Cards :
                    submit_move(match, rounds, player_id, card_id,
                                CurrentRound.round_number, "total").code
                       \in Accepted

IncompleteRounds == {r \in rounds : ~is_complete(r)}

\* C38: in every reachable state the match is IN_PROGRESS if and only if it
\* has exactly one incomplete round, and a match that is SETUP or FINISHED
\* has no incomplete round.
C38_OneOpenRoundIffInProgress ==
    /\ match.status = IN_PROGRESS <=> Cardinality(IncompleteRounds) = 1
    /\ match.status # IN_PROGRESS => IncompleteRounds = {}

\* Round 1 has just been resolved: it is complete, round 2 is the one open
\* round and holds no card, and the match is IN_PROGRESS.
C38_Witness ==
    /\ match.status = IN_PROGRESS
    /\ Cardinality(CompletedRounds) = 1
    /\ IncompleteRounds = {Round(2, CurrentRound.category)}

\* The completed rounds that player_id has won.
RoundsWonBy(player_id) == {r \in CompletedRounds : r.winner_id = player_id}

\* C39: in every reachable state each score is the number of completed
\* rounds won by that player; no step lowers a score, and a step that
\* changes a score is the step that records the second card of a round.
C39_ScoresCountWins ==
    /\ [](match # NoMatch =>
            /\ match.player1_score
                  = Cardinality(RoundsWonBy(match.player1_id))
            /\ match.player2_score
                  = Cardinality(RoundsWonBy(match.player2_id)))
    /\ [][/\ match'.player1_score >= match.player1_score
          /\ match'.player2_score >= match.player2_score
          /\ ( \/ match'.player1_score # match.player1_score
               \/ match'.player2_score # match.player2_score )
             => \E r \in rounds' : Resolved(r)]_vars

\* Player 1 has won round 1 and has moved first in round 2: the score is
\* still 1:0.
C39_Witness ==
    /\ match.status = IN_PROGRESS
    /\ match.player1_score = 1 /\ match.player2_score = 0
    /\ \E r \in CompletedRounds : r.winner_id = match.player1_id
    /\ CurrentRound.round_number = 2
    /\ CurrentRound.player1_card_id # None

\* Request p is serving an Enqueue and has written nothing since its WATCH.
BeforeCommit(p) ==
    /\ proc[p].op = "enqueue"
    /\ \/ proc[p].pc \in {"e_watch", "e_zscore", "e_zcard"}
       \/ proc[p].pc = "e_exec" /\ proc[p].watch = "dirty"

\* C40: every Enqueue in service returns, as long as the clock of the model
\* has readings left; and the steps of an Enqueue from its WATCH up to a
\* WatchError and the retry write no queue entry and no status record.
C40_EnqueueReturns ==
    /\ \A p \in Procs :
          (proc[p].op = "enqueue")
             ~> (proc[p].pc = "idle" \/ clock = MaxClock)
    /\ [][\A p \in Procs :
             (BeforeCommit(p) /\ StepOf(p))
             => queue' = queue /\ status' = status]_vars

\* A transaction was aborted by a WatchError after another request had
\* committed a queue entry, and the loop is about to start over.
C40_Witness ==
    \E p \in Procs :
        /\ proc[p].pc = "e_watch"
        /\ queue # {}

=============================================================================
